---- MODULE Spec2Model ----
(***************************************************************************)
(* A model of backend/server.js: the Striven rate window, the token cache, *)
(* the item cache and the three request handlers that fetch items.        *)
(*                                                                         *)
(* Scheduling.  Node runs one continuation at a time, to its next awaited  *)
(* network call.  `running` names the request whose synchronous block is   *)
(* executing (0: none).  Sending the response ends a block.                 *)
(*                                                                         *)
(* Time is in milliseconds, as in the source, and moves between blocks.    *)
(* The upstream answers with item objects (truthy values); each item       *)
(* carries the id it was asked for and a version, so that a re-fetch can   *)
(* be told from the stored value.                                          *)
(***************************************************************************)
EXTENDS Integers, Sequences, FiniteSets

\* ------------------------------------------------------------- bounds
\* events of the environment: clock advances and identifiers submitted
MaxEvents == 4
STRIVEN_MAX_CALLS_PER_MIN == 1
\* the largest price of an item, and the most components of an item group
MaxPrice == 1101
MaxComponents == 2

\* ---------------------------------------------------------- constants
WINDOW_MS == 60000
BUFFER_MS == 60000
DEFAULT_EXPIRES_IN == 86400
ITEM_CACHE_TTL_MS == 10 * 60 * 1000

\* request 1 is a batch request, request 2 a request for one item
Reqs == {1, 2}
BatchReqs == {1}
ItemReqs == {2}
\* how far the clock moves at once
Deltas == {1, WINDOW_MS - 1, ITEM_CACHE_TTL_MS}

\* ------------------------------------------------------ JavaScript values
JUndef == [t |-> "undef", n |-> 0, s |-> ""]
JNum(n) == [t |-> "num", n |-> n, s |-> ""]
JStr(s) == [t |-> "str", n |-> 0, s |-> s]

NaN == [fin |-> FALSE, n |-> 0]
Fin(n) == [fin |-> TRUE, n |-> n]

\* !v
Falsy(v) == \/ v.t = "undef"
            \/ v.t = "num" /\ v.n = 0
            \/ v.t = "str" /\ v.s = ""

\* Number(v), on the values the model uses
JsNumber(v) ==
  CASE v.t = "num" -> Fin(v.n)
    [] v.t = "str" /\ v.s = "1" -> Fin(1)
    [] v.t = "str" /\ v.s = "2" -> Fin(2)
    [] v.t = "str" /\ v.s = "" -> Fin(0)
    [] OTHER -> NaN

\* String(v)
JsString(v) ==
  CASE v.t = "str" -> v.s
    [] v.t = "num" /\ v.n = 0 -> "0"
    [] v.t = "num" /\ v.n = 1 -> "1"
    [] v.t = "num" /\ v.n = 2 -> "2"
    [] v.t = "undef" -> "undefined"
    [] OTHER -> "?"

\* String(s ?? "").trim()
normalizeKey(v) ==
  CASE v.t = "undef" -> ""
    [] v.t = "str" /\ v.s = " W " -> "W"
    [] OTHER -> JsString(v)

\* data/itemNumberToId.json and data/itemNameToId_missingNumber.json
itemNumberToId(k) == IF k = "A1" THEN JNum(1) ELSE JUndef
itemNameToIdMissingNumber(k) == IF k = "W" THEN JNum(2) ELSE JUndef

\* the id the loop of resolve-by-number finds for an item number
LookupId(itemNumber) ==
  LET id == itemNumberToId(itemNumber)
  IN IF Falsy(id) /\ itemNumberToId(itemNumber).t = "undef"
       THEN itemNameToIdMissingNumber(itemNumber)
       ELSE id

\* ------------------------------------------------------------- inputs
NumberInputs == {JStr("A1"), JStr(" W "), JStr("ZZ")}
LineInputs == {JNum(1), JStr("2"), JStr("abc")}
ParamInputs == {JStr("1"), JStr("2")}

CacheKeys == {"1", "2"}
NoItem == [id |-> 0, ver |-> 0]
Item(id, ver) == [id |-> id, ver |-> ver]
NoEntry == [ts |-> -1, value |-> NoItem]

\* what the upstream item endpoint sends for /v1/items/<key>
UpstreamItem(key, ver) == Item(JsNumber(JStr(key)).n, ver)
\* non-success item responses: status and Retry-After header (0: none)
ErrorResponses == {[status |-> 500, ra |-> 0],
                   [status |-> 429, ra |-> 0],
                   [status |-> 429, ra |-> 7]}
\* token responses: access_token and expires_in (0: absent)
TokenResponses == {[ok |-> TRUE, token |-> 1, expires_in |-> 0],
                   [ok |-> TRUE, token |-> 2, expires_in |-> 120],
                   [ok |-> FALSE, token |-> 0, expires_in |-> 0]}

NoResp == [status |-> 0, retryAfter |-> 0, lines |-> <<>>, item |-> NoItem]

VARIABLES now, used, windowStartMs, windowCount, cachedToken,
          tokenExpiresAt, itemByIdCache, running, pc, endpoint, len, body, idx,
          results, curId, resp, log, admitLog, lastPut,
          itemJson, priced, lastDenial

vars == <<now, used, windowStartMs, windowCount, cachedToken,
          tokenExpiresAt, itemByIdCache, running, pc, endpoint, len, body, idx,
          results, curId, resp, log, admitLog, lastPut,
          itemJson, priced, lastDenial>>

guardVars == <<windowStartMs, windowCount>>
tokenVars == <<cachedToken, tokenExpiresAt>>
clockVars == <<now>>
reqVars == <<endpoint, len, body, idx, curId>>
priceVars == <<itemJson, priced>>

\* lastDenial records the last refusal of the rate guard: the time from which
\* it told the caller to retry (now + retryAfter seconds; -1: no refusal yet)
\* and the calls admitted since, counted up to the limit
NoDenial == [retryAt |-> -1, admitted |-> 0]
Min(a, b) == IF a <= b THEN a ELSE b

\* ------------------------------------------------------- rate window
Window == [start |-> windowStartMs, count |-> windowCount]

\* variants of the guard with a slip in them, which the properties below must tell from the code
resetKeepsCount(w, t) ==
  IF t - w.start >= WINDOW_MS THEN [start |-> t, count |-> w.count] ELSE w
resetAfterWindow(w, t) ==
  IF t - w.start > WINDOW_MS THEN [start |-> t, count |-> 0] ELSE w

rateWindowResetIfNeeded(w, t) ==
  IF t - w.start >= WINDOW_MS THEN [start |-> t, count |-> 0] ELSE w

canSpendAtLimit(w, t) ==
  rateWindowResetIfNeeded(w, t).count <= STRIVEN_MAX_CALLS_PER_MIN

\* the value canSpendStrivenCall returns; its effect is the reset
canSpendStrivenCall(w, t) ==
  rateWindowResetIfNeeded(w, t).count < STRIVEN_MAX_CALLS_PER_MIN

spendWithoutCount(w, t) == rateWindowResetIfNeeded(w, t)

spendStrivenCall(w, t) ==
  LET v == rateWindowResetIfNeeded(w, t)
  IN [v EXCEPT !.count = @ + 1]

Max(a, b) == IF a >= b THEN a ELSE b
\* Math.ceil(a / b) for a >= 0, b > 0
Ceil(a, b) == (a + b - 1) \div b

\* a variant that reports the time gone since the window started
retryAfterElapsed(w, t) ==
  LET v == rateWindowResetIfNeeded(w, t)
  IN Max(1, Ceil(t - v.start, 1000))
\* a variant that rounds the seconds down
retryAfterFloor(w, t) ==
  LET v == rateWindowResetIfNeeded(w, t)
      msLeft == Max(0, WINDOW_MS - (t - v.start))
  IN Max(1, msLeft \div 1000)

\* the value getRetryAfterSeconds returns; its effect is the reset
getRetryAfterSeconds(w, t) ==
  LET v == rateWindowResetIfNeeded(w, t)
      msLeft == Max(0, WINDOW_MS - (t - v.start))
  IN Max(1, Ceil(msLeft, 1000))

\* --------------------------------------------------------- item cache
\* variants of the cache with a slip in them, which the properties below must tell from the code
cacheGetInverted(cache, id, t) ==
  LET key == JsString(id)
      hit == cache[key]
  IN IF hit = NoEntry THEN [value |-> NoItem, cache |-> cache]
     ELSE IF t - hit.ts < ITEM_CACHE_TTL_MS
       THEN [value |-> NoItem, cache |-> [cache EXCEPT ![key] = NoEntry]]
       ELSE [value |-> hit.value, cache |-> cache]
cacheGetExpiresAtTtl(cache, id, t) ==
  LET key == JsString(id)
      hit == cache[key]
  IN IF hit = NoEntry THEN [value |-> NoItem, cache |-> cache]
     ELSE IF t - hit.ts >= ITEM_CACHE_TTL_MS
       THEN [value |-> NoItem, cache |-> [cache EXCEPT ![key] = NoEntry]]
       ELSE [value |-> hit.value, cache |-> cache]

\* cacheGetItem: the value returned (NoItem: null) and the map afterwards
cacheGetItem(cache, id, t) ==
  LET key == JsString(id)
      hit == cache[key]
  IN IF hit = NoEntry THEN [value |-> NoItem, cache |-> cache]
     ELSE IF t - hit.ts > ITEM_CACHE_TTL_MS
       THEN [value |-> NoItem, cache |-> [cache EXCEPT ![key] = NoEntry]]
       ELSE [value |-> hit.value, cache |-> cache]

\* a variant that keeps an entry that is already there
cacheSetFirstWins(cache, id, value, t) ==
  IF cache[JsString(id)] # NoEntry THEN cache
  ELSE [cache EXCEPT ![JsString(id)] = [ts |-> t, value |-> value]]

cacheSetItem(cache, id, value, t) ==
  [cache EXCEPT ![JsString(id)] = [ts |-> t, value |-> value]]

\* -------------------------------------------------------- token cache
\* variants of the token cache with a slip in them
tokenFreshAtExpiry(tok, exp, t) == tok # 0 /\ t <= exp
expiryWithoutBuffer(expires_in, t) ==
  t + (IF expires_in # 0 THEN expires_in ELSE DEFAULT_EXPIRES_IN) * 1000

\* getAccessToken, line 108: the cached token is reused
TokenFresh(tok, exp, t) == tok # 0 /\ t < exp

\* line 133-134
TokenExpiry(expires_in, t) ==
  LET expiresInMs == (IF expires_in # 0 THEN expires_in ELSE DEFAULT_EXPIRES_IN) * 1000
  IN t + expiresInMs - BUFFER_MS


\* ------------------------------------------------------------ pricing
\* Amounts (prices, quantities, totals) are JavaScript numbers; the model
\* counts them in quarters: JNum(6) is 1.5.  The amounts the items carry are
\* multiples of 0.5, so that their products are whole quarters.
SCALE == 4
Mul(a, b) == (a * b) \div SCALE

\* toNumber: Number(x) if that is finite, else 0
toNumber(x) ==
  CASE x.t = "num" -> x.n
    [] x.t = "str" /\ x.s = "2" -> 2 * SCALE
    [] x.t = "str" /\ x.s = "" -> 0
    [] OTHER -> 0

\* a variant of the rounding with a slip in it
roundDownNice(n) ==
  LET x == n
      step == IF x >= 10 * SCALE /\ x < 100 * SCALE THEN 5
              ELSE IF x >= 100 * SCALE /\ x <= 500 * SCALE THEN 20
              ELSE IF x > 500 * SCALE /\ x <= 1000 * SCALE THEN 50
              ELSE IF x > 1000 * SCALE THEN 100
              ELSE 1
  IN IF x <= 0 THEN 0 ELSE (x \div (step * SCALE)) * step * SCALE

\* roundUpNice, on a number
roundUpNice(n) ==
  LET x == n
      step == IF x >= 10 * SCALE /\ x < 100 * SCALE THEN 5
              ELSE IF x >= 100 * SCALE /\ x <= 500 * SCALE THEN 20
              ELSE IF x > 500 * SCALE /\ x <= 1000 * SCALE THEN 50
              ELSE IF x > 1000 * SCALE THEN 100
              ELSE 1
  IN IF x <= 0 THEN 0 ELSE Ceil(x, step * SCALE) * step * SCALE

\* itemJson.groupItems: an array of components, or something else (missing)
NoArray == [isArray |-> FALSE, items |-> <<>>]
Array(q) == [isArray |-> TRUE, items |-> q]
\* typeName.toLowerCase(), on the type names the model uses
toLowerCaseKept(s) == s
toLowerCase(s) ==
  IF s \in {"Item Group", "ITEM GROUP", "item group"} THEN "item group"
  ELSE IF s = "Item" THEN "item" ELSE s

RECURSIVE SumLineTotals(_)
SumLineTotals(components) ==
  IF Len(components) = 0 THEN 0
  ELSE SumLineTotals(SubSeq(components, 1, Len(components) - 1))
         + components[Len(components)].lineTotal

calcItemRawTotal(json) ==
  IF toLowerCase(json.typeName) = "item group" /\ json.groupItems.isArray
    THEN LET components ==
               [k \in DOMAIN json.groupItems.items |->
                  LET qty == toNumber(json.groupItems.items[k].qty)
                      unitPrice == toNumber(json.groupItems.items[k].price)
                  IN [qty |-> qty, unitPrice |-> unitPrice,
                      lineTotal |-> Mul(qty, unitPrice)]]
         IN [rawTotal |-> SumLineTotals(components), components |-> components,
             kind |-> "SRG"]
    ELSE [rawTotal |-> toNumber(json.price), components |-> <<>>, kind |-> "ITEM"]

\* the items that are priced: type name ("": none), groupItems, price
TypeNames == {"Item Group", "item group", "ITEM GROUP", "Item", ""}
Quantities == {JNum(2 * SCALE), JNum(SCALE), JNum(SCALE \div 2), JStr("2"),
               JStr("abc")}
UnitPrices == {JNum(10 * SCALE), JNum(5 * SCALE), JNum(250 * SCALE), JUndef}
GroupItems == [qty : Quantities, price : UnitPrices]
Prices == {JNum(q) : q \in (-2 * SCALE)..(MaxPrice * SCALE)}
            \cup {JStr("2"), JStr("abc"), JUndef}
GroupLists ==
  {NoArray} \cup
    {Array(q) : q \in UNION {[1..n -> GroupItems] : n \in 0..MaxComponents}}
NoJson == [typeName |-> "", groupItems |-> NoArray, price |-> JUndef]
NoPrice == [rawTotal |-> 0, components |-> <<>>, kind |-> "none",
            roundedTotal |-> 0]

\* ---------------------------------------------------- request handlers
Last(q) == q[Len(q)]
CurX(r) == IF body[r] = <<>> THEN JUndef ELSE Last(body[r])
\* an event of a request: what it did for its i-th input (st, ra: the status
\* and the Retry-After of a failed item response)
Ev(i, op) == [i |-> i, op |-> op, st |-> 0, ra |-> 0]
EvFailed(i, er) == [i |-> i, op |-> "itemFailed", st |-> er.status, ra |-> er.ra]
Logged(r, ops) == [log EXCEPT ![r] = @ \o ops]
\* the admissions of the last WINDOW_MS, as seen at time t
Recent(q, t) == SelectSeq(q, LAMBDA x : t - x < WINDOW_MS)

\* the part of a result line that names the input it is for:
\* requestedItemNumber (resolve-by-number), id (resolve-lines)
ReqKey(e, x) == IF e = "number" THEN normalizeKey(x) ELSE ""
idOmitted(e, x) == 0
ReqId(e, x) == IF e = "lines" THEN JsNumber(x).n ELSE 0

SuccessLine(e, x, item) ==
  [reqKey |-> ReqKey(e, x), id |-> item.id, kind |-> "ok", error |-> "",
   item |-> item]
ErrorLine(e, x, error) ==
  [reqKey |-> ReqKey(e, x), id |-> ReqId(e, x), kind |-> "error",
   error |-> error, item |-> NoItem]

\* variants of the handlers' tests with a slip in them, which the properties below must tell from the code
statusNeverQuota(status) == FALSE
statusMissingIsQuota(status) == status \in {0, 429}
statusFrom429(status) == status >= 429

\* line 296 / 355: Number(err.status) === 429
IsQuotaStatus(status) == status = 429
\* line 349: !Number.isFinite(id)
SkipsLine(id) == ~id.fin
\* line 259: Number(err.status) || 500
ReplyStatus(status) == IF status # 0 THEN status ELSE 500

\* the version of the item the upstream sends next for a key: the item has
\* changed since it was last stored
UpstreamVersion(key) == IF lastPut[key].value.ver = 1 THEN 2 ELSE 1

\* fetchItemByIdCached returned `item` to the handler of request r, which
\* runs endpoint e and is at input x
OnItem(r, e, x, item) ==
  IF e = "item"
    THEN /\ resp' = [resp EXCEPT ![r] = [NoResp EXCEPT !.status = 200, !.item = item]]
         /\ pc' = [pc EXCEPT ![r] = "done"]
         /\ running' = r
         /\ results' = results
    ELSE /\ results' = [results EXCEPT ![r] = Append(@, SuccessLine(e, x, item))]
         /\ pc' = [pc EXCEPT ![r] = "loop"]
         /\ running' = r
         /\ resp' = resp

\* a variant of the catch that goes on without a line for the identifier
onErrorSwallows(r, e, x, status, retryAfter, error, w) ==
  IF e = "item"
    THEN /\ resp' = [resp EXCEPT ![r] = [NoResp EXCEPT
                        !.status = ReplyStatus(status), !.retryAfter = retryAfter]]
         /\ pc' = [pc EXCEPT ![r] = "done"]
         /\ running' = r
         /\ results' = results
         /\ windowStartMs' = w.start
         /\ windowCount' = w.count
    ELSE IF IsQuotaStatus(status)
      THEN LET ra == IF retryAfter # 0 THEN retryAfter
                                       ELSE getRetryAfterSeconds(w, now)
               v == IF retryAfter # 0 THEN w ELSE rateWindowResetIfNeeded(w, now)
           IN /\ resp' = [resp EXCEPT ![r] = [NoResp EXCEPT !.status = 429,
                              !.retryAfter = ra, !.lines = results[r]]]
              /\ pc' = [pc EXCEPT ![r] = "done"]
              /\ running' = r
              /\ results' = results
              /\ windowStartMs' = v.start
              /\ windowCount' = v.count
      ELSE /\ results' = results
           /\ pc' = [pc EXCEPT ![r] = "loop"]
           /\ running' = r
           /\ resp' = resp
           /\ windowStartMs' = w.start
           /\ windowCount' = w.count

\* fetchItemByIdCached threw an error with .status (0: none) and .retryAfter
\* (0: none) in request r; w is the rate window at the throw
OnError(r, e, x, status, retryAfter, error, w) ==
  IF e = "item"
    THEN /\ resp' = [resp EXCEPT ![r] = [NoResp EXCEPT
                        !.status = ReplyStatus(status), !.retryAfter = retryAfter]]
         /\ pc' = [pc EXCEPT ![r] = "done"]
         /\ running' = r
         /\ results' = results
         /\ windowStartMs' = w.start
         /\ windowCount' = w.count
    ELSE IF IsQuotaStatus(status)
      THEN LET ra == IF retryAfter # 0 THEN retryAfter
                                       ELSE getRetryAfterSeconds(w, now)
               v == IF retryAfter # 0 THEN w ELSE rateWindowResetIfNeeded(w, now)
           IN /\ resp' = [resp EXCEPT ![r] = [NoResp EXCEPT !.status = 429,
                              !.retryAfter = ra, !.lines = results[r]]]
              /\ pc' = [pc EXCEPT ![r] = "done"]
              /\ running' = r
              /\ results' = results
              /\ windowStartMs' = v.start
              /\ windowCount' = v.count
      ELSE /\ results' = [results EXCEPT ![r] = Append(@, ErrorLine(e, x, error))]
           /\ pc' = [pc EXCEPT ![r] = "loop"]
           /\ running' = r
           /\ resp' = resp
           /\ windowStartMs' = w.start
           /\ windowCount' = w.count

\* a variant of the fetch that counts the call before it checks the window
fetchSpendsFirst(r, e, i, x, id, pre) ==
  LET got == cacheGetItem(itemByIdCache, id, now)
      w1 == rateWindowResetIfNeeded(Window, now)
      w2 == spendStrivenCall(w1, now)
  IN /\ itemByIdCache' = got.cache
     /\ IF got.value # NoItem
          THEN /\ OnItem(r, e, x, got.value)
               /\ log' = Logged(r, pre \o <<Ev(i, "hit")>>)
               /\ UNCHANGED <<guardVars, admitLog, lastDenial>>
          ELSE IF ~canSpendStrivenCall(Window, now)
            THEN /\ OnError(r, e, x, 429, getRetryAfterSeconds(w1, now), "guard",
                            spendStrivenCall(w1, now))
                 /\ log' = Logged(r, pre \o <<Ev(i, "miss"), Ev(i, "denied")>>)
                 /\ lastDenial' =
                      [retryAt |-> now + getRetryAfterSeconds(w1, now) * 1000,
                       admitted |-> 0]
                 /\ UNCHANGED admitLog
            ELSE /\ windowStartMs' = w2.start
                 /\ windowCount' = w2.count
                 /\ admitLog' = Append(Recent(admitLog, now), now)
                 /\ lastDenial' =
                      IF lastDenial = NoDenial THEN NoDenial
                      ELSE [lastDenial EXCEPT !.admitted =
                              Min(@ + 1, STRIVEN_MAX_CALLS_PER_MIN)]
                 /\ running' = 0
                 /\ UNCHANGED <<results, resp>>
                 /\ IF TokenFresh(cachedToken, tokenExpiresAt, now)
                      THEN /\ pc' = [pc EXCEPT ![r] = "awaitItem"]
                           /\ log' = Logged(r, pre \o <<Ev(i, "miss"),
                                        Ev(i, "spend"), Ev(i, "itemReq")>>)
                      ELSE /\ pc' = [pc EXCEPT ![r] = "awaitToken"]
                           /\ log' = Logged(r, pre \o <<Ev(i, "miss"),
                                        Ev(i, "spend"), Ev(i, "tokenReq")>>)

\* fetchItemByIdCached(id) up to its first awaited network call, called by
\* request r (endpoint e) for its i-th input x: cacheGetItem (line 192), then
\* strivenFetch's guard (lines 142-149) and getAccessToken's check (line 108).
\* `pre` are the request's events before the call.
FetchBlock(r, e, i, x, id, pre) ==
  LET got == cacheGetItem(itemByIdCache, id, now)
      w1 == rateWindowResetIfNeeded(Window, now)
      w2 == spendStrivenCall(w1, now)
  IN /\ itemByIdCache' = got.cache
     /\ IF got.value # NoItem
          THEN /\ OnItem(r, e, x, got.value)
               /\ log' = Logged(r, pre \o <<Ev(i, "hit")>>)
               /\ UNCHANGED <<guardVars, admitLog, lastDenial>>
          ELSE IF ~canSpendStrivenCall(Window, now)
            THEN /\ OnError(r, e, x, 429, getRetryAfterSeconds(w1, now), "guard",
                            rateWindowResetIfNeeded(w1, now))
                 /\ log' = Logged(r, pre \o <<Ev(i, "miss"), Ev(i, "denied")>>)
                 /\ lastDenial' =
                      [retryAt |-> now + getRetryAfterSeconds(w1, now) * 1000,
                       admitted |-> 0]
                 /\ UNCHANGED admitLog
            ELSE /\ windowStartMs' = w2.start
                 /\ windowCount' = w2.count
                 /\ admitLog' = Append(Recent(admitLog, now), now)
                 /\ lastDenial' =
                      IF lastDenial = NoDenial THEN NoDenial
                      ELSE [lastDenial EXCEPT !.admitted =
                              Min(@ + 1, STRIVEN_MAX_CALLS_PER_MIN)]
                 /\ running' = 0
                 /\ UNCHANGED <<results, resp>>
                 /\ IF TokenFresh(cachedToken, tokenExpiresAt, now)
                      THEN /\ pc' = [pc EXCEPT ![r] = "awaitItem"]
                           /\ log' = Logged(r, pre \o <<Ev(i, "miss"),
                                        Ev(i, "spend"), Ev(i, "itemReq")>>)
                      ELSE /\ pc' = [pc EXCEPT ![r] = "awaitToken"]
                           /\ log' = Logged(r, pre \o <<Ev(i, "miss"),
                                        Ev(i, "spend"), Ev(i, "tokenReq")>>)

\* the state of the server when it starts to listen
Startup ==
  /\ now = 0 /\ used = 0
  /\ windowStartMs = 0 /\ windowCount = 0
  /\ cachedToken = 0 /\ tokenExpiresAt = 0
  /\ itemByIdCache = [k \in CacheKeys |-> NoEntry]
  /\ running = 0
  /\ pc = [r \in Reqs |-> "idle"]
  /\ endpoint = [r \in Reqs |-> "none"]
  /\ len = [r \in Reqs |-> 0]
  /\ body = [r \in Reqs |-> <<>>]
  /\ idx = [r \in Reqs |-> 0]
  /\ results = [r \in Reqs |-> <<>>]
  /\ curId = [r \in Reqs |-> JUndef]
  /\ resp = [r \in Reqs |-> NoResp]
  /\ log = [r \in Reqs |-> <<>>]
  /\ admitLog = <<>>
  /\ lastPut = [k \in CacheKeys |-> NoEntry]
  /\ lastDenial = NoDenial

Init == Startup /\ itemJson = NoJson /\ priced = NoPrice

\* the clock moves while no synchronous block runs
Tick(d) ==
  /\ UNCHANGED <<priceVars, lastDenial>>
  /\ used < MaxEvents /\ running = 0
  /\ now' = now + d
  /\ used' = used + 1
  /\ admitLog' = Recent(admitLog, now + d)
  /\ UNCHANGED <<guardVars, tokenVars, itemByIdCache, running, pc, reqVars,
                 results, resp, log, lastPut>>

\* GET /api/items/:id arrives (lines 254-256)
StartItem(r, id) ==
  /\ UNCHANGED priceVars
  /\ pc[r] = "idle" /\ running = 0 /\ used < MaxEvents
  /\ used' = used + 1
  /\ endpoint' = [endpoint EXCEPT ![r] = "item"]
  /\ curId' = [curId EXCEPT ![r] = id]
  /\ FetchBlock(r, "item", 0, JUndef, id, <<>>)
  /\ UNCHANGED <<clockVars, tokenVars, len, body, idx, lastPut>>

\* POST /api/resolve-by-number or /api/resolve-lines arrives with a list of
\* n elements (lines 267-272, 340-345)
StartBatch(r, e, n) ==
  /\ UNCHANGED <<priceVars, lastDenial>>
  /\ pc[r] = "idle" /\ running = 0 /\ used + n <= MaxEvents
  /\ used' = used + n
  /\ endpoint' = [endpoint EXCEPT ![r] = e]
  /\ len' = [len EXCEPT ![r] = n]
  /\ IF n = 0
       THEN /\ resp' = [resp EXCEPT ![r] = [NoResp EXCEPT !.status = 400]]
            /\ pc' = [pc EXCEPT ![r] = "done"]
            /\ running' = r
       ELSE /\ resp' = resp
            /\ pc' = [pc EXCEPT ![r] = "loop"]
            /\ running' = r
  /\ UNCHANGED <<clockVars, guardVars, tokenVars, itemByIdCache, body, idx,
                 results, curId, log, admitLog, lastPut>>

\* the loop is over: res.json({ lines: results }) (lines 329, 382)
Reply(r) ==
  /\ UNCHANGED <<priceVars, lastDenial>>
  /\ pc[r] = "loop" /\ running = r /\ idx[r] = len[r]
  /\ resp' = [resp EXCEPT ![r] = [NoResp EXCEPT !.status = 200, !.lines = results[r]]]
  /\ pc' = [pc EXCEPT ![r] = "done"]
  /\ UNCHANGED <<clockVars, used, guardVars, tokenVars, itemByIdCache, reqVars,
                 running, results, log, admitLog, lastPut>>

\* one turn of the loop of resolve-by-number, to its await (lines 274-294):
\* x is the next element of itemNumbers
IterateNumber(r, x) ==
  /\ UNCHANGED priceVars
  /\ pc[r] = "loop" /\ running = r /\ idx[r] < len[r] /\ endpoint[r] = "number"
  /\ idx' = [idx EXCEPT ![r] = @ + 1]
  /\ body' = [body EXCEPT ![r] = Append(@, x)]
  /\ LET id == LookupId(normalizeKey(x))
         i == idx[r] + 1
     IN IF Falsy(id)
          THEN /\ results' = [results EXCEPT ![r] =
                   Append(@, ErrorLine("number", x, "noid"))]
               /\ log' = Logged(r, <<Ev(i, "noid")>>)
               /\ UNCHANGED <<pc, curId, running, resp, guardVars, itemByIdCache,
                              admitLog, lastDenial>>
          ELSE /\ curId' = [curId EXCEPT ![r] = id]
               /\ FetchBlock(r, "number", i, x, id, <<Ev(i, "lookup")>>)
  /\ UNCHANGED <<clockVars, used, tokenVars, endpoint, len, lastPut>>

\* one turn of the loop of resolve-lines, to its await (lines 347-353):
\* x is the id of the next element of lines
IterateLines(r, x) ==
  /\ UNCHANGED priceVars
  /\ pc[r] = "loop" /\ running = r /\ idx[r] < len[r] /\ endpoint[r] = "lines"
  /\ idx' = [idx EXCEPT ![r] = @ + 1]
  /\ body' = [body EXCEPT ![r] = Append(@, x)]
  /\ LET id == JsNumber(x)
         i == idx[r] + 1
     IN IF SkipsLine(id)
          THEN /\ log' = Logged(r, <<Ev(i, "skip")>>)
               /\ UNCHANGED <<pc, curId, running, results, resp, guardVars,
                              itemByIdCache, admitLog, lastDenial>>
          ELSE /\ curId' = [curId EXCEPT ![r] = JNum(id.n)]
               /\ FetchBlock(r, "lines", i, x, JNum(id.n), <<Ev(i, "id")>>)
  /\ UNCHANGED <<clockVars, used, tokenVars, endpoint, len, lastPut>>

\* variants of the token response: a failed exchange gives the call back to
\* the rate window; a failed exchange forgets the cached token
tokenResponseRefunds(r, tr) ==
  /\ UNCHANGED <<priceVars, lastDenial>>
  /\ pc[r] = "awaitToken" /\ running = 0
  /\ IF tr.ok
       THEN /\ cachedToken' = tr.token
            /\ tokenExpiresAt' = TokenExpiry(tr.expires_in, now)
            /\ pc' = [pc EXCEPT ![r] = "awaitItem"]
            /\ log' = Logged(r, <<Ev(idx[r], "itemReq")>>)
            /\ UNCHANGED <<guardVars, running, results, resp>>
       ELSE /\ OnError(r, endpoint[r], CurX(r), 0, 0, "token",
                       [Window EXCEPT !.count = Max(0, @ - 1)])
            /\ log' = Logged(r, <<Ev(idx[r], "tokenFailed")>>)
            /\ UNCHANGED tokenVars
  /\ UNCHANGED <<clockVars, used, itemByIdCache, reqVars, admitLog, lastPut>>

tokenResponseClears(r, tr) ==
  /\ UNCHANGED <<priceVars, lastDenial>>
  /\ pc[r] = "awaitToken" /\ running = 0
  /\ IF tr.ok
       THEN /\ cachedToken' = tr.token
            /\ tokenExpiresAt' = TokenExpiry(tr.expires_in, now)
            /\ pc' = [pc EXCEPT ![r] = "awaitItem"]
            /\ log' = Logged(r, <<Ev(idx[r], "itemReq")>>)
            /\ UNCHANGED <<guardVars, running, results, resp>>
       ELSE /\ OnError(r, endpoint[r], CurX(r), 0, 0, "token", Window)
            /\ log' = Logged(r, <<Ev(idx[r], "tokenFailed")>>)
            /\ cachedToken' = 0
            /\ tokenExpiresAt' = tokenExpiresAt
  /\ UNCHANGED <<clockVars, used, itemByIdCache, reqVars, admitLog, lastPut>>

\* the token endpoint answered (lines 124-137); with a token, strivenFetch
\* goes on to fetch(url) (lines 151-161)
TokenResponse(r, tr) ==
  /\ UNCHANGED <<priceVars, lastDenial>>
  /\ pc[r] = "awaitToken" /\ running = 0
  /\ IF tr.ok
       THEN /\ cachedToken' = tr.token
            /\ tokenExpiresAt' = TokenExpiry(tr.expires_in, now)
            /\ pc' = [pc EXCEPT ![r] = "awaitItem"]
            /\ log' = Logged(r, <<Ev(idx[r], "itemReq")>>)
            /\ UNCHANGED <<guardVars, running, results, resp>>
       ELSE /\ OnError(r, endpoint[r], CurX(r), 0, 0, "token", Window)
            /\ log' = Logged(r, <<Ev(idx[r], "tokenFailed")>>)
            /\ UNCHANGED tokenVars
  /\ UNCHANGED <<clockVars, used, itemByIdCache, reqVars, admitLog, lastPut>>

\* the item endpoint answered with an item (lines 173, 195-196)
ItemOk(r, ver) ==
  /\ UNCHANGED <<priceVars, lastDenial>>
  /\ pc[r] = "awaitItem" /\ running = 0
  /\ LET item == UpstreamItem(JsString(curId[r]), ver)
     IN /\ itemByIdCache' = cacheSetItem(itemByIdCache, curId[r], item, now)
        /\ lastPut' = [lastPut EXCEPT ![JsString(curId[r])] =
                         [ts |-> now, value |-> item]]
        /\ OnItem(r, endpoint[r], CurX(r), item)
  /\ log' = Logged(r, <<Ev(idx[r], "item")>>)
  /\ UNCHANGED <<clockVars, used, guardVars, tokenVars, reqVars, admitLog>>

\* the item endpoint answered with a non-success status (lines 163-171)
ItemError(r, er) ==
  /\ UNCHANGED <<priceVars, lastDenial>>
  /\ pc[r] = "awaitItem" /\ running = 0
  /\ OnError(r, endpoint[r], CurX(r), er.status, er.ra, "upstream", Window)
  /\ log' = Logged(r, <<EvFailed(idx[r], er)>>)
  /\ UNCHANGED <<clockVars, used, tokenVars, itemByIdCache, reqVars, admitLog,
                 lastPut>>

\* the response was sent, which ends the request's synchronous block; the
\* request's records are discarded
Finish(r) ==
  /\ UNCHANGED <<priceVars, lastDenial>>
  /\ pc[r] = "done" /\ running = r
  /\ running' = 0
  /\ pc' = [pc EXCEPT ![r] = "idle"]
  /\ endpoint' = [endpoint EXCEPT ![r] = "none"]
  /\ len' = [len EXCEPT ![r] = 0]
  /\ body' = [body EXCEPT ![r] = <<>>]
  /\ idx' = [idx EXCEPT ![r] = 0]
  /\ results' = [results EXCEPT ![r] = <<>>]
  /\ curId' = [curId EXCEPT ![r] = JUndef]
  /\ resp' = [resp EXCEPT ![r] = NoResp]
  /\ log' = [log EXCEPT ![r] = <<>>]
  /\ UNCHANGED <<clockVars, used, guardVars, tokenVars, itemByIdCache, admitLog,
                 lastPut>>

Next ==
  \/ \E d \in Deltas : Tick(d)
  \/ \E r \in ItemReqs, id \in ParamInputs : StartItem(r, id)
  \/ \E r \in BatchReqs, e \in {"number", "lines"}, n \in 0..MaxEvents : StartBatch(r, e, n)
  \/ \E r \in Reqs : Reply(r)
  \/ \E r \in Reqs, x \in NumberInputs : IterateNumber(r, x)
  \/ \E r \in Reqs, x \in LineInputs : IterateLines(r, x)
  \/ \E r \in Reqs, tr \in TokenResponses : TokenResponse(r, tr)
  \/ \E r \in Reqs : ItemOk(r, UpstreamVersion(JsString(curId[r])))
  \/ \E r \in Reqs, er \in ErrorResponses : ItemError(r, er)
  \/ \E r \in Reqs : Finish(r)

Spec == Init /\ [][Next]_vars

\* ---- pricing of one item, as the handlers do it for a fetched item
\* (lines 312-313, 366-367)
PricedItems ==
  [typeName : TypeNames, groupItems : GroupLists,
   price : {JNum(12 * SCALE), JStr("abc")}]
    \cup [typeName : {"Item", ""}, groupItems : {NoArray}, price : Prices]

InitPricing == Startup /\ itemJson \in PricedItems /\ priced = NoPrice

PriceItem ==
  /\ priced = NoPrice
  /\ LET calc == calcItemRawTotal(itemJson)
     IN priced' = [rawTotal |-> calc.rawTotal, components |-> calc.components,
                   kind |-> calc.kind,
                   roundedTotal |-> roundUpNice(calc.rawTotal)]
  /\ UNCHANGED <<now, used, guardVars, tokenVars, itemByIdCache, running, pc,
                 reqVars, results, resp, log, admitLog, lastPut, itemJson,
                 lastDenial>>

NextPricing == PriceItem

SpecPricing == InitPricing /\ [][NextPricing]_vars

TypeOK ==
  /\ now >= 0 /\ used \in 0..MaxEvents
  /\ windowCount \in Nat /\ windowStartMs \in 0..now
  /\ running \in Reqs \cup {0}
  /\ \A r \in Reqs : pc[r] \in {"idle", "loop", "awaitToken", "awaitItem", "done"}

\* ================================================================ claims
InFlight(r) == pc[r] \in {"awaitToken", "awaitItem"}
\* the admissions made since the rate window started
InWindow == SelectSeq(admitLog, LAMBDA x : x >= windowStartMs)

\* C1: in every reachable state 0 <= windowCount <= limit, and while the
\* window has not elapsed windowCount is the number of calls admitted in it:
\* each admitted call passed the check with count < limit and was counted once,
\* whatever the interleaving of the requests at their network waits.
C1_CountWithinLimit ==
  /\ windowCount >= 0
  /\ windowCount <= STRIVEN_MAX_CALLS_PER_MIN
  /\ now - windowStartMs < WINDOW_MS => windowCount = Len(InWindow)

\* a call of one request is in flight, the window is full, and the other
\* request was refused meanwhile
C1_Witness ==
  /\ windowCount = STRIVEN_MAX_CALLS_PER_MIN
  /\ \E r, q \in Reqs : /\ r # q /\ InFlight(r)
                        /\ pc[q] = "done" /\ resp[q].status = 429
                        /\ Last(log[q]).op = "denied"

\* the inputs of a batch that get a result line: all of them in
\* resolve-by-number, those with a finite id in resolve-lines
RECURSIVE Answered(_, _)
Answered(e, xs) ==
  IF xs = <<>> THEN <<>>
  ELSE IF e = "lines" /\ ~JsNumber(Head(xs)).fin THEN Answered(e, Tail(xs))
  ELSE <<Head(xs)>> \o Answered(e, Tail(xs))

\* line l is the line of input x: it carries the normalized item number
\* (resolve-by-number) or the numeric id (resolve-lines) of x
LineOf(e, l, x) ==
  IF e = "number" THEN l.reqKey = normalizeKey(x) ELSE l.id = JsNumber(x).n

\* the lines are those of the inputs xs, one each, in order
LinesOf(e, lines, xs) ==
  /\ Len(lines) = Len(xs)
  /\ \A i \in 1..Len(lines) : LineOf(e, lines[i], xs[i])

Denials(r) == {j \in DOMAIN log[r] : log[r][j].op = "denied"}

\* C2: when the rate guard refuses the fetch for the k-th identifier of a
\* batch, the batch ends at once: the response is a 429 with a positive
\* retryAfter and exactly the lines of identifiers 1..k-1, in order, and
\* nothing was read, looked up, checked or fetched for identifiers k+1..n.
C2_QuotaAbort ==
  \A r \in BatchReqs : \A j \in Denials(r) :
    LET k == log[r][j].i
    IN /\ j = Len(log[r])
       /\ pc[r] = "done"
       /\ resp[r].status = 429
       /\ resp[r].retryAfter > 0
       /\ resp[r].lines = results[r]
       /\ LinesOf(endpoint[r], resp[r].lines,
                  Answered(endpoint[r], SubSeq(body[r], 1, k - 1)))
       /\ idx[r] = k /\ Len(body[r]) = k
       /\ \A m \in DOMAIN log[r] : log[r][m].i <= k

\* the guard refused the 2nd identifier of a longer batch that had a line
C2_Witness ==
  \E r \in BatchReqs :
    /\ pc[r] = "done" /\ resp[r].status = 429
    /\ Denials(r) # {}
    /\ idx[r] >= 2 /\ len[r] > idx[r]
    /\ Len(resp[r].lines) >= 1

\* ---- steps of a request, told from the variables it changes
\* request r took a turn of its loop, request r arrived for one item
Turned(r) == idx'[r] = idx[r] + 1
Arrived(r) == pc[r] = "idle" /\ endpoint'[r] = "item"
\* the input of the turn, and the id the turn finds for it
TurnInput(r) == Last(body'[r])
TurnId(r) ==
  IF endpoint[r] = "number"
    THEN LET k == normalizeKey(TurnInput(r))
         IN IF itemNumberToId(k).t # "undef" THEN itemNumberToId(k)
                                              ELSE itemNameToIdMissingNumber(k)
    ELSE IF JsNumber(TurnInput(r)).fin THEN JNum(JsNumber(TurnInput(r)).n)
                                       ELSE JUndef
\* request r called fetchItemByIdCached(id) in this step
Fetches(r, id) ==
  \/ Arrived(r) /\ id = curId'[r]
  \/ Turned(r) /\ id = TurnId(r) /\ id # JUndef
FetchIds == ParamInputs \cup {JNum(1), JNum(2)}
\* the events the step adds to the request's log
NewEvents(r) == SubSeq(log'[r], Len(log[r]) + 1, Len(log'[r]))
Ops(q) == {q[j].op : j \in DOMAIN q}
\* the item the step hands to the caller: a result line's, or the response's
Handed(r) ==
  IF endpoint'[r] = "item" THEN resp'[r].item
  ELSE IF Len(results'[r]) = Len(results[r]) + 1 THEN Last(results'[r]).item
  ELSE NoItem
\* the cache holds an entry for id that has not expired
Fresh(id) ==
  LET hit == itemByIdCache[JsString(id)]
  IN hit # NoEntry /\ now - hit.ts <= ITEM_CACHE_TTL_MS
\* the step of request r makes no upstream call and spends no quota
NoUpstream(r) ==
  /\ windowCount' = windowCount /\ windowStartMs' = windowStartMs
  /\ admitLog' = admitLog
  /\ pc'[r] \notin {"awaitToken", "awaitItem"}
  /\ Ops(NewEvents(r)) \cap {"spend", "tokenReq", "itemReq"} = {}
\* the item number of the turn is in neither mapping table
LookupMisses(r) ==
  /\ Turned(r) /\ endpoint[r] = "number"
  /\ itemNumberToId(normalizeKey(TurnInput(r))).t = "undef"
  /\ itemNameToIdMissingNumber(normalizeKey(TurnInput(r))).t = "undef"

\* C3: a fetch served from a cache entry that has not expired hands over the
\* cached item, and an item number in neither mapping table gets its error
\* line; both leave the rate window as it is and make no upstream call.
C3_NoQuotaWithoutUpstream ==
  [][\A r \in Reqs :
       /\ \A id \in FetchIds : Fetches(r, id) /\ Fresh(id) =>
            /\ Handed(r) = itemByIdCache[JsString(id)].value
            /\ NoUpstream(r)
       /\ LookupMisses(r) =>
            /\ Len(results'[r]) = Len(results[r]) + 1
            /\ Last(results'[r]).kind = "error"
            /\ Last(results'[r]).error = "noid"
            /\ NoUpstream(r)]_vars

\* a batch served one identifier from the cache and found no id for another,
\* with the quota of the window used up by the earlier fetch
C3_Witness ==
  \E r \in BatchReqs :
    /\ {"hit", "noid"} \subseteq Ops(log[r])
    /\ Ops(log[r]) \cap {"spend", "denied"} = {}
    /\ windowCount = STRIVEN_MAX_CALLS_PER_MIN

\* the events of request r that are failed item responses
Failures(r) == {j \in DOMAIN log[r] : log[r][j].op = "itemFailed"}
\* the place, among the result lines, of the line of the i-th input
Place(r, i) == Len(Answered(endpoint[r], SubSeq(body[r], 1, i)))
\* the batch has, for its i-th input, an error line with this error
HasErrorLine(r, i, error) ==
  /\ Place(r, i) \in 1..Len(results[r])
  /\ results[r][Place(r, i)].kind = "error"
  /\ results[r][Place(r, i)].error = error
  /\ LineOf(endpoint[r], results[r][Place(r, i)], body[r][i])
\* the batch was ended by a quota response at its i-th input
AbortedAt(r, i) == pc[r] = "done" /\ resp[r].status = 429 /\ idx[r] = i

\* C4 as claimed: a non-success item response, whatever its status, gives
\* its identifier an error line and never ends the batch.
C4_AnyStatusPerLine ==
  \A r \in BatchReqs : \A j \in Failures(r) :
    /\ HasErrorLine(r, log[r][j].i, "upstream")
    /\ ~AbortedAt(r, log[r][j].i)

\* C4, amended: a non-success item response with a status other than 429
\* gives its identifier an error line and the loop goes on with the next
\* identifier; a 429 from the item endpoint ends the batch like a refusal of
\* the guard, with the lines so far and a positive retryAfter.
C4_UpstreamErrorPerLine ==
  \A r \in BatchReqs : \A j \in Failures(r) :
    LET i == log[r][j].i
    IN IF log[r][j].st # 429
         THEN /\ HasErrorLine(r, i, "upstream")
              /\ ~AbortedAt(r, i)
              /\ j = Len(log[r]) =>
                   \/ pc[r] = "loop" /\ running = r
                   \/ /\ pc[r] = "done" /\ idx[r] = len[r]
                      /\ resp[r].status = 200 /\ resp[r].lines = results[r]
         ELSE /\ j = Len(log[r])
              /\ AbortedAt(r, i)
              /\ resp[r].lines = results[r]
              /\ Len(results[r]) = Place(r, i) - 1
              /\ resp[r].retryAfter > 0

\* a batch got a 500 for its first identifier and went on to a second one
C4_Witness ==
  \E r \in BatchReqs : \E j \in Failures(r) :
    /\ log[r][j].st = 500
    /\ idx[r] > log[r][j].i
    /\ Len(results[r]) > Place(r, log[r][j].i)

\* the events of request r that are failed token exchanges
TokenFailures(r) == {j \in DOMAIN log[r] : log[r][j].op = "tokenFailed"}

\* C5 as claimed: a failed token exchange during a batch ends the batch with
\* a top-level failure and no result lines.
C5_TokenFailureEndsBatch ==
  \A r \in BatchReqs : \A j \in TokenFailures(r) :
    /\ j = Len(log[r])
    /\ pc[r] = "done"
    /\ resp[r].status >= 400
    /\ resp[r].lines = <<>>

\* C5, amended: a failed token exchange during a batch gives the identifier
\* being fetched an error line, keeps the lines so far, and the loop goes on
\* with the next identifier; the batch is never ended by it.  Only the
\* request for one item answers a failed token exchange with a failure (500).
C5_TokenFailurePerLine ==
  /\ \A r \in BatchReqs : \A j \in TokenFailures(r) :
       LET i == log[r][j].i
       IN /\ HasErrorLine(r, i, "token")
          /\ Len(results[r]) >= Place(r, i)
          /\ ~AbortedAt(r, i)
          /\ pc[r] = "done" => resp[r].status \in {200, 429}
          /\ j = Len(log[r]) =>
               \/ pc[r] = "loop" /\ running = r
               \/ /\ pc[r] = "done" /\ idx[r] = len[r]
                  /\ resp[r].status = 200 /\ resp[r].lines = results[r]
  /\ \A r \in ItemReqs : \A j \in TokenFailures(r) :
       /\ j = Len(log[r])
       /\ pc[r] = "done" /\ resp[r].status = 500 /\ resp[r].item = NoItem

\* a batch had a line, lost the token exchange for its next identifier and
\* went on to a third one
C5_Witness ==
  \E r \in BatchReqs : \E j \in TokenFailures(r) :
    /\ log[r][j].i >= 2
    /\ idx[r] > log[r][j].i
    /\ Len(results[r]) > Place(r, log[r][j].i)
    /\ Place(r, log[r][j].i) >= 2

\* the batch of request r completed without a quota abort
Completed(r) == pc[r] = "done" /\ resp[r].status = 200

\* C6 as claimed: a batch that completes without a quota abort has exactly
\* one line per input, the i-th line being that of the i-th input.
C6_OneLinePerInput ==
  \A r \in BatchReqs : Completed(r) =>
    /\ Len(body[r]) = len[r]
    /\ LinesOf(endpoint[r], resp[r].lines, body[r])

\* C6, amended: a batch of resolve-by-number that completes without a quota
\* abort has exactly one line per input, in input order; a batch of
\* resolve-lines has exactly one line per input whose id is a finite
\* number, in input order, and no line for the other inputs.
C6_OneLinePerFiniteId ==
  \A r \in BatchReqs : Completed(r) =>
    /\ Len(body[r]) = len[r]
    /\ LinesOf(endpoint[r], resp[r].lines, Answered(endpoint[r], body[r]))
    /\ endpoint[r] = "number" => Len(resp[r].lines) = len[r]
    /\ \A i \in 1..Len(resp[r].lines) : resp[r].lines[i].kind \in {"ok", "error"}

\* a batch of resolve-lines completed with fewer lines than inputs: it had
\* an input without a finite id between two inputs that got their lines
C6_Witness ==
  \E r \in BatchReqs :
    /\ Completed(r) /\ endpoint[r] = "lines"
    /\ len[r] = 3 /\ Len(resp[r].lines) = 2
    /\ ~JsNumber(body[r][2]).fin
    /\ resp[r].lines[1].kind # resp[r].lines[2].kind

\* request r got the item it was waiting for in this step, and stored it
Stores(r) == pc[r] = "awaitItem" /\ "item" \in Ops(NewEvents(r))

\* C7: a fetch finds in the cache, under String(id), the value stored last
\* for that key, and is served that value without an upstream call exactly
\* when now - ts <= ITEM_CACHE_TTL_MS; when now - ts > ITEM_CACHE_TTL_MS the
\* get answers null and deletes the entry, and the fetch goes on to the
\* upstream fetch (guarded by the rate window).  A fetched item is stored
\* over the entry with ts = now.
C7_CacheExpiry ==
  [][/\ \A r \in Reqs : \A id \in FetchIds : Fetches(r, id) =>
          LET key == JsString(id)
              entry == itemByIdCache[key]
              ops == Ops(NewEvents(r))
          IN IF entry = NoEntry
               THEN "miss" \in ops /\ itemByIdCache' = itemByIdCache
               ELSE /\ entry = lastPut[key]
                    /\ IF now - entry.ts <= ITEM_CACHE_TTL_MS
                         THEN /\ "hit" \in ops
                              /\ Handed(r) = lastPut[key].value
                              /\ NoUpstream(r)
                              /\ itemByIdCache' = itemByIdCache
                         ELSE /\ "miss" \in ops
                              /\ Handed(r) = NoItem
                              /\ itemByIdCache' =
                                   [itemByIdCache EXCEPT ![key] = NoEntry]
                              /\ "spend" \in ops \/ "denied" \in ops
                              /\ "spend" \in ops =>
                                   pc'[r] \in {"awaitToken", "awaitItem"}
     /\ \A r \in Reqs : Stores(r) =>
          /\ Handed(r) # NoItem
          /\ itemByIdCache' = [itemByIdCache EXCEPT ![JsString(curId[r])] =
                                 [ts |-> now, value |-> Handed(r)]]]_vars

\* an entry was stored, outlived its TTL and was deleted by the next fetch
\* of its key, whose upstream call is in flight
C7_Witness ==
  \E r \in Reqs :
    LET key == JsString(curId[r])
    IN /\ InFlight(r)
       /\ curId[r] # JUndef
       /\ lastPut[key] # NoEntry
       /\ now - lastPut[key].ts > ITEM_CACHE_TTL_MS
       /\ itemByIdCache[key] = NoEntry

\* ---- the rate window, as the steps of the requests change it
\* the window has elapsed at the time of the step
Elapsed == now - windowStartMs >= WINDOW_MS
\* the count an admission check of the step is made against: 0 once the
\* window has elapsed
CountAtCheck == IF Elapsed THEN 0 ELSE windowCount
\* request r makes an admission check in this step (strivenFetch, line 142)
Checks(r) == "miss" \in Ops(NewEvents(r))
Admitted(r) == "spend" \in Ops(NewEvents(r))
Denied(r) == "denied" \in Ops(NewEvents(r))

\* C8: an admission check admits the call exactly when count < limit, and
\* then adds exactly 1 to count; otherwise it refuses and leaves count and
\* windowStart as they were.  Once `limit` calls were admitted in a window
\* every further check in that window is refused.
C8_TryAdmit ==
  [][\A r \in Reqs : Checks(r) =>
       /\ Admitted(r) # Denied(r)
       /\ Admitted(r) <=> CountAtCheck < STRIVEN_MAX_CALLS_PER_MIN
       /\ Admitted(r) => /\ windowCount' = CountAtCheck + 1
                         /\ admitLog' = Append(Recent(admitLog, now), now)
                         /\ InFlight(r)'
       /\ Denied(r) => /\ windowCount' = windowCount
                       /\ windowStartMs' = windowStartMs
                       /\ admitLog' = admitLog
                       /\ ~InFlight(r)'
       /\ ~Elapsed /\ Len(InWindow) >= STRIVEN_MAX_CALLS_PER_MIN => Denied(r)]_vars

\* the window is full and has not elapsed, a call admitted in it is still in
\* flight, and the other request was refused at a later time
C8_Witness ==
  /\ windowCount = STRIVEN_MAX_CALLS_PER_MIN
  /\ now > windowStartMs /\ now - windowStartMs < WINDOW_MS
  /\ \E r, q \in Reqs : /\ r # q /\ InFlight(r)
                        /\ log[q] # <<>> /\ Last(log[q]).op = "denied"
                        /\ resp[q].status = 429

\* request r asks for the seconds left in the window after a 429 of the item
\* endpoint that had no Retry-After (lines 299, 358)
Queries(r) ==
  /\ r \in BatchReqs /\ NewEvents(r) # <<>>
  /\ Last(NewEvents(r)).op = "itemFailed"
  /\ Last(NewEvents(r)).st = 429 /\ Last(NewEvents(r)).ra = 0
\* the step runs an operation of the guard
GuardOp == \E r \in Reqs : Checks(r) \/ Queries(r)

\* C9: an operation of the guard made once now - windowStart >= 60000 sets
\* windowStart to now and count to 0 first: an admission check is then
\* admitted and leaves count = 1, however full the window was, and a query of
\* the seconds left leaves count = 0.  While now - windowStart < 60000 no
\* step moves windowStart, and no step but a guard operation touches the
\* window.
C9_WindowReset ==
  [][/\ GuardOp /\ Elapsed =>
          /\ windowStartMs' = now
          /\ \A r \in Reqs : Checks(r) => Admitted(r) /\ windowCount' = 1
          /\ \A r \in Reqs : Queries(r) => windowCount' = 0
     /\ ~Elapsed => windowStartMs' = windowStartMs
     /\ ~GuardOp => windowStartMs' = windowStartMs /\ windowCount' = windowCount]_vars

\* a window was filled and left to elapse, and the next check, made exactly
\* 60000 ms after a window start, was admitted into a new window
C9_Witness ==
  /\ now = WINDOW_MS
  /\ windowStartMs = now
  /\ windowCount = 1
  /\ admitLog = <<now>>
  /\ \E r \in BatchReqs :
       /\ InFlight(r)
       /\ Cardinality({j \in DOMAIN log[r] : log[r][j].op = "spend"}) =
            STRIVEN_MAX_CALLS_PER_MIN + 1

\* admitLog holds the times of the calls admitted in the last WINDOW_MS, that
\* is in the interval (now - WINDOW_MS, now]

\* C10 as claimed: every interval of 60000 ms holds at most `limit` admitted
\* calls.
C10_SlidingWindow == Len(admitLog) <= STRIVEN_MAX_CALLS_PER_MIN

\* C10, amended: the guard is a fixed window that restarts at the first
\* guard operation made 60000 ms or more after its start: at most `limit`
\* calls are admitted between two restarts, each within 60000 ms of the
\* window's start, and an interval of 60000 ms, which can span a restart,
\* holds at most 2 * limit admitted calls.
C10_FixedWindow ==
  /\ Len(InWindow) <= STRIVEN_MAX_CALLS_PER_MIN
  /\ \A j \in DOMAIN InWindow : InWindow[j] - windowStartMs < WINDOW_MS
  /\ Len(admitLog) <= 2 * STRIVEN_MAX_CALLS_PER_MIN
  /\ \A j \in DOMAIN admitLog : now - admitLog[j] < WINDOW_MS

\* a call was admitted at the end of a full window and another one 1 ms
\* later, into the next window: twice the limit within 60000 ms
C10_Witness ==
  /\ Len(admitLog) = 2 * STRIVEN_MAX_CALLS_PER_MIN
  /\ Len(InWindow) = STRIVEN_MAX_CALLS_PER_MIN
  /\ windowStartMs = WINDOW_MS
  /\ admitLog[1] = WINDOW_MS - 1

\* ---- pricing
\* the item was priced
Priced == priced.kind # "none"
\* the step of a raw total x > 0, by tier: [0,10) 1, [10,100) 5,
\* [100,500] 20, (500,1000] 50, above 1000 100
TierStep(x) ==
  IF x < 10 * SCALE THEN 1
  ELSE IF x < 100 * SCALE THEN 5
  ELSE IF x <= 500 * SCALE THEN 20
  ELSE IF x <= 1000 * SCALE THEN 50
  ELSE 100

\* C11: a raw total <= 0 is rounded to 0; any other raw total is rounded to
\* a multiple of its tier's step with
\* roundedTotal - step < rawTotal <= roundedTotal.
C11_NiceRounding ==
  Priced =>
    LET x == priced.rawTotal
        y == priced.roundedTotal
        step == TierStep(x) * SCALE
    IN /\ x <= 0 => y = 0
       /\ x > 0 => /\ y % step = 0
                   /\ y - step < x
                   /\ x <= y

\* the first raw total above 500 (500.25) was rounded with step 50, to 550
C11_Witness ==
  /\ Priced
  /\ priced.rawTotal = 500 * SCALE + 1
  /\ priced.roundedTotal = 550 * SCALE

\* the item's type name is "item group", whatever the case of its letters
IsGroup == itemJson.typeName \in {"Item Group", "item group", "ITEM GROUP"}
\* the amount a value counts as: the number it stands for, 0 if it stands
\* for none
Amount(v) ==
  IF v.t = "num" THEN v.n
  ELSE IF v = JStr("2") THEN 2 * SCALE
  ELSE 0
\* the item was priced as a bundle: its components in their order, each with
\* qty x unitPrice as its total, and their sum as the raw total
RECURSIVE TotalOf(_, _)
TotalOf(q, n) ==
  IF n = 0 THEN 0
  ELSE TotalOf(q, n - 1) + (Amount(q[n].qty) * Amount(q[n].price)) \div SCALE
PricedAsBundle ==
  LET q == itemJson.groupItems.items
  IN /\ priced.kind = "SRG"
     /\ Len(priced.components) = Len(q)
     /\ \A k \in 1..Len(q) :
          /\ priced.components[k].qty = Amount(q[k].qty)
          /\ priced.components[k].unitPrice = Amount(q[k].price)
          /\ priced.components[k].lineTotal * SCALE =
               Amount(q[k].qty) * Amount(q[k].price)
     /\ priced.rawTotal = TotalOf(q, Len(q))
\* the item was priced by its own price
PricedAsSingle ==
  /\ priced.kind = "ITEM"
  /\ Len(priced.components) = 0
  /\ priced.rawTotal = Amount(itemJson.price)

\* C12 as claimed: an item is priced as a bundle exactly when its type name
\* is "item group" and it has a non-empty sequence of components, and by its
\* own price in every other case.
C12_BundleIffNonEmpty ==
  Priced =>
    IF IsGroup /\ itemJson.groupItems.isArray
               /\ Len(itemJson.groupItems.items) > 0
      THEN PricedAsBundle ELSE PricedAsSingle

\* C12, amended: an item is priced as a bundle exactly when its type name is
\* "item group" and its groupItems is an array, empty or not (an empty one
\* gives rawTotal 0 and no components); in every other case, an item group
\* without an array of components included, it is priced by its own price.
\* Values of qty and price that are no finite numbers count as 0.
C12_BundleIffArray ==
  Priced =>
    IF IsGroup /\ itemJson.groupItems.isArray
      THEN PricedAsBundle ELSE PricedAsSingle

\* the group of 2 x 10 and 1 x 5 was priced 25, which step 5 leaves at 25
C12_Witness ==
  /\ Priced /\ itemJson.typeName = "ITEM GROUP"
  /\ itemJson.groupItems.isArray
  /\ Len(itemJson.groupItems.items) = 2
  /\ priced.components[1].lineTotal = 20 * SCALE
  /\ priced.components[2].lineTotal = 5 * SCALE
  /\ priced.rawTotal = 25 * SCALE
  /\ priced.roundedTotal = 25 * SCALE

\* ---- the token cache, as the steps of the requests use it
\* request r, admitted by the guard, gets the cached token from
\* getAccessToken and sends its item request in the same step
Reuses(r) == Admitted(r) /\ "itemReq" \in Ops(NewEvents(r))
\* request r, admitted by the guard, sends a token request
Exchanges(r) == Admitted(r) /\ "tokenReq" \in Ops(NewEvents(r))
\* request r gets the token it asked for, stores it and sends its item request
Refreshes(r) == pc[r] = "awaitToken" /\ pc'[r] = "awaitItem"
\* the lifetime, in seconds, of the tokens the token endpoint issues: token 2
\* comes with expires_in = 120, token 1 without expires_in
Lifetime(tok) == IF tok = 2 THEN 120 ELSE DEFAULT_EXPIRES_IN

\* C13 as claimed: the cached token is reused, without a token request,
\* exactly when there is one and now is before its stored expiry minus the
\* 60000 ms buffer.
C13_ReuseBeforeBuffer ==
  [][\A r \in Reqs : Admitted(r) =>
       (Reuses(r) <=> cachedToken # 0 /\ now < tokenExpiresAt - BUFFER_MS)]_vars

\* C13, amended: the cached token is reused, without a token request,
\* exactly when there is one and now is before its stored expiry; in every
\* other case a token request is sent, and the token it brings is stored with
\* the expiry now + lifetime - 60000 ms (lifetime 86400 s if absent).  The
\* buffer is taken off once, when the expiry is stored: a cached token is
\* never handed out in the last 60000 ms of its lifetime.
C13_ReuseBeforeStoredExpiry ==
  [][\A r \in Reqs :
       /\ Admitted(r) =>
            /\ Reuses(r) <=> cachedToken # 0 /\ now < tokenExpiresAt
            /\ Exchanges(r) <=> ~Reuses(r)
            /\ Reuses(r) => pc'[r] = "awaitItem"
            /\ Exchanges(r) => pc'[r] = "awaitToken"
            /\ cachedToken' = cachedToken /\ tokenExpiresAt' = tokenExpiresAt
       /\ Refreshes(r) =>
            /\ cachedToken' \in {1, 2}
            /\ tokenExpiresAt' =
                 now + Lifetime(cachedToken') * 1000 - BUFFER_MS]_vars

\* a token with a lifetime of 120 s is reused for an item request when less
\* than the buffer is left before its stored expiry
C13_Witness ==
  \E r \in Reqs :
    /\ pc[r] = "awaitItem" /\ Len(log[r]) >= 2
    /\ log[r][Len(log[r])].op = "itemReq"
    /\ log[r][Len(log[r]) - 1].op = "spend"
    /\ cachedToken = 2
    /\ now > 0 /\ now < tokenExpiresAt /\ now >= tokenExpiresAt - BUFFER_MS

\* the place of the event `op` among the events q
Pos(q, op) == CHOOSE j \in DOMAIN q : q[j].op = op
\* request r sends a token request or an item request in this step
Sends(r) == Ops(NewEvents(r)) \cap {"tokenReq", "itemReq"} # {}

\* C14: the rate guard is checked before any token is acquired.  A refusal
\* ends the fetch with status 429 and a positive retryAfter, with no token
\* request and no item request sent and windowCount and the token cache as
\* they were; a token request or an item request is sent only after the
\* guard admitted the call.
C14_GuardBeforeToken ==
  [][\A r \in Reqs :
       LET new == NewEvents(r)
       IN /\ Denied(r) =>
               /\ ~Sends(r) /\ ~Admitted(r)
               /\ windowCount' = windowCount
               /\ cachedToken' = cachedToken /\ tokenExpiresAt' = tokenExpiresAt
               /\ pc'[r] = "done"
               /\ resp'[r].status = 429 /\ resp'[r].retryAfter > 0
          /\ Sends(r) =>
               IF Refreshes(r)
                 THEN \E j \in DOMAIN log[r] :
                        /\ log[r][j].op = "spend" /\ log[r][j].i = idx[r]
                        /\ \E m \in DOMAIN log[r] :
                             m > j /\ log[r][m].op = "tokenReq"
                 ELSE /\ Checks(r) /\ Admitted(r)
                      /\ Pos(new, "miss") < Pos(new, "spend")
                      /\ \A m \in DOMAIN new :
                           new[m].op \in {"tokenReq", "itemReq"} =>
                             Pos(new, "spend") < m]_vars

\* the guard refused a fetch while no token had ever been stored: the other
\* request's token request, sent after its admission, is still unanswered
C14_Witness ==
  \E r, q \in Reqs :
    /\ pc[r] = "awaitToken" /\ cachedToken = 0
    /\ pc[q] = "done" /\ resp[q].status = 429 /\ resp[q].retryAfter > 0
    /\ Last(log[q]).op = "denied"
    /\ Ops(log[q]) \cap {"spend", "tokenReq", "itemReq"} = {}

\* how long after the current state the seconds left are asked for
Probes == {0, 1, 999, 1000, 1001, 30500, 59000, 59001, 59999, 60000, 60001}

\* C15: for the rate window of every reachable state and every time from
\* now on, getRetryAfterSeconds returns an integer r with 1 <= r <= 60, the
\* least number of whole seconds that covers the time left in the window
\* (the window being restarted first if it has elapsed); this is the
\* retryAfter a refusal of the guard reports.
C15_RetryAfterRange ==
  /\ \A d \in Probes :
       LET t == now + d
           r == getRetryAfterSeconds(Window, t)
           start == IF t - windowStartMs >= WINDOW_MS THEN t ELSE windowStartMs
           left == start + WINDOW_MS - t
       IN /\ r \in 1..60
          /\ (r - 1) * 1000 < left
          /\ left <= r * 1000
  /\ \A q \in Reqs :
       log[q] # <<>> /\ Last(log[q]).op = "denied" =>
         /\ resp[q].retryAfter \in 1..60
         /\ (resp[q].retryAfter - 1) * 1000 < windowStartMs + WINDOW_MS - now
         /\ windowStartMs + WINDOW_MS - now <= resp[q].retryAfter * 1000

\* the guard refused a call 1 ms before the end of the window and reported
\* retryAfter = 1
C15_Witness ==
  \E q \in Reqs :
    /\ log[q] # <<>> /\ Last(log[q]).op = "denied"
    /\ now - windowStartMs = WINDOW_MS - 1
    /\ resp[q].retryAfter = 1

\* C16: when the guard refuses a call at time t and reports retryAfter = r,
\* the window that caused the refusal has elapsed by t + r seconds; a check
\* made at or after that time is admitted if fewer than `limit` calls were
\* admitted since the refusal (no call can be admitted between the refusal
\* and the end of its window).
C16_RetryAfterRecovers ==
  [][\A r \in Reqs :
       /\ Denied(r) =>
            /\ lastDenial'.retryAt = now + resp'[r].retryAfter * 1000
            /\ lastDenial'.retryAt >= windowStartMs + WINDOW_MS
            /\ lastDenial'.admitted = 0
       /\ Admitted(r) /\ lastDenial # NoDenial =>
            /\ lastDenial'.retryAt = lastDenial.retryAt
            /\ now > lastDenial.retryAt - 1000
       /\ Checks(r) /\ lastDenial # NoDenial /\ now >= lastDenial.retryAt
                    /\ lastDenial.admitted < STRIVEN_MAX_CALLS_PER_MIN
            => Admitted(r)]_vars

\* a call was refused, and a call made after the time the refusal named was
\* admitted as the first one since
C16_Witness ==
  /\ lastDenial # NoDenial
  /\ now >= lastDenial.retryAt
  /\ lastDenial.admitted = 1
  /\ windowStartMs = now /\ windowCount = 1
  /\ \E r \in Reqs : InFlight(r) /\ Last(log[r]).op \in {"itemReq", "tokenReq"}

\* the number of events `op` of request r
Count(r, op) == Cardinality({j \in DOMAIN log[r] : log[r][j].op = op})
\* the token exchange of request r fails in this step
TokenFails(r) == "tokenFailed" \in Ops(NewEvents(r))

C18_TokenPairWhole ==
  [][/\ <<cachedToken, tokenExpiresAt>>' # <<cachedToken, tokenExpiresAt>> =>
          /\ \E r \in Reqs : Refreshes(r)
          /\ cachedToken' \in {1, 2}
          /\ tokenExpiresAt' = now + Lifetime(cachedToken') * 1000 - BUFFER_MS
     /\ \A r \in Reqs :
          /\ Refreshes(r) =>
               tokenExpiresAt' = now + Lifetime(cachedToken') * 1000 - BUFFER_MS
          /\ TokenFails(r) =>
               cachedToken' = cachedToken /\ tokenExpiresAt' = tokenExpiresAt]_vars

\* two refreshes overlap: one request stored its token, which has not
\* expired, while the token request the other sent before is unanswered
C18_Witness ==
  \E r, q \in Reqs :
    /\ pc[r] = "awaitToken"
    /\ pc[q] = "awaitItem" /\ Count(q, "tokenReq") = 1
    /\ cachedToken = 2 /\ now < tokenExpiresAt
    /\ tokenExpiresAt = now + Lifetime(2) * 1000 - BUFFER_MS

\* the number of events `op` of request r for its i-th input
CountAt(r, i, op) ==
  Cardinality({j \in DOMAIN log[r] : log[r][j].i = i /\ log[r][j].op = op})

\* C19: a batch works through its inputs in their order, one at a time: all
\* that is done for input i is done before anything is done for input i+1,
\* the lines of the inputs before the current one are there when its fetch
\* is in flight, and for each input there is at most one check of the guard,
\* one admission, one token request and one item request.
C19_InOrderNoRetry ==
  \A r \in BatchReqs :
    /\ Len(body[r]) = idx[r] /\ idx[r] <= len[r]
    /\ \A j \in DOMAIN log[r] : log[r][j].i \in 1..idx[r]
    /\ \A j, m \in DOMAIN log[r] : j < m => log[r][j].i <= log[r][m].i
    /\ \A i \in 1..idx[r] : \A op \in {"miss", "spend", "tokenReq", "itemReq"} :
         CountAt(r, i, op) <= 1
    /\ pc[r] = "loop" =>
         LinesOf(endpoint[r], results[r], Answered(endpoint[r], body[r]))
    /\ InFlight(r) =>
         /\ LinesOf(endpoint[r], results[r],
                    Answered(endpoint[r], SubSeq(body[r], 1, idx[r] - 1)))
         /\ Last(log[r]).i = idx[r]
         /\ Last(log[r]).op \in {"tokenReq", "itemReq"}

\* a batch has the lines of its first two inputs, one of them fetched from
\* upstream, and the fetch for its third input is in flight
C19_Witness ==
  \E r \in BatchReqs :
    /\ InFlight(r) /\ idx[r] = 3
    /\ Len(results[r]) = 2
    /\ Count(r, "spend") = 2 /\ CountAt(r, 3, "spend") = 1
    /\ Count(r, "item") + Count(r, "itemFailed") = 1

\* the fetch of request r fails in this step
Fails(r) ==
  Ops(NewEvents(r)) \cap {"denied", "tokenFailed", "itemFailed"} # {}
\* the id whose items are stored under key k
IdOf(k) == IF k = "1" THEN 1 ELSE 2

\* C20: whatever the interleaving of the requests, an entry of the cache is
\* what the last successful item request for its key stored: the item the
\* upstream sent for that id, with the time it was stored.  An entry changes
\* only when a fetched item is stored over it (the response that arrives
\* last wins) or when a fetch of its key finds it expired and deletes it; a
\* fetch that fails stores nothing.
C20_CacheIntegrity ==
  [][/\ \A k \in CacheKeys :
          /\ itemByIdCache[k] # NoEntry =>
               /\ itemByIdCache[k] = lastPut[k]
               /\ itemByIdCache[k].value.id = IdOf(k)
               /\ itemByIdCache[k].ts \in 0..now
          /\ itemByIdCache'[k] # itemByIdCache[k] =>
               \/ \E r \in Reqs :
                    /\ Stores(r) /\ JsString(curId[r]) = k
                    /\ Handed(r).id = IdOf(k) /\ Handed(r).ver \in {1, 2}
                    /\ itemByIdCache'[k] = [ts |-> now, value |-> Handed(r)]
               \/ /\ itemByIdCache'[k] = NoEntry
                  /\ now - itemByIdCache[k].ts > ITEM_CACHE_TTL_MS
                  /\ \E r \in Reqs : Checks(r) /\ JsString(curId'[r]) = k
     /\ \A r \in Reqs : Fails(r) =>
          \A k \in CacheKeys : itemByIdCache'[k] \in {itemByIdCache[k], NoEntry}
     /\ \A r \in Reqs : Stores(r) =>
          itemByIdCache'[JsString(curId[r])] = [ts |-> now, value |-> Handed(r)]]_vars

\* two requests fetched the same id at once.  The cache holds the second
\* item stored for the key, that of the response that arrived last; the
\* first one cannot have expired, so the two fetches overlapped.
C20_Witness ==
  \E r \in Reqs :
    LET k == JsString(curId[r])
    IN /\ log[r] # <<>> /\ Last(log[r]).op = "item"
       /\ curId[r] # JUndef
       /\ now > 0 /\ now <= ITEM_CACHE_TTL_MS
       /\ itemByIdCache[k].value.ver = 2
       /\ itemByIdCache[k].ts = now
====
